---- MODULE Spec2Model ----
\* Model of the tealdeer page cache (src/src/cache.rs): cache directory
\* resolution, single page lookup, page listing and cache age.
\*
\* File names are sequences of one-character strings so that appending ".md",
\* splitting at the last dot and byte-wise ordering are computed, not assumed.
\* Paths are sequences of such names.
EXTENDS Integers, Sequences, FiniteSets, TLC

\* os      the OsType the Cache was built with
\* envVar  the state of $TEALDEER_CACHE_DIR in the process environment
\* xdgOk   whether the XDG base directories can be determined
\* fs      the file system: every existing path and what it is
\* mtime   modification time of <root>/tldr-master, seconds
\* now     the clock, seconds
\* op      the operation that ran last ("new" before any), arg its page name
\* ret     what the operation returned
\* walked  the entries the directory walk of the last list_pages yielded
VARIABLES os, envVar, xdgOk, fs, mtime, now, op, arg, ret, walked

vars == <<os, envVar, xdgOk, fs, mtime, now, op, arg, ret, walked>>

\* ---------------------------------------------------------------- bounds

\* Largest number of entries placed below the pages directory.
MaxEntries == 2

\* The same, in the start-up states that vary the whole environment.
MaxEnvEntries == 1

\* ------------------------------------------------------------ file names

N_md == <<"m", "d">>
N_common == <<"c", "o", "m", "m", "o", "n">>
N_linux == <<"l", "i", "n", "u", "x">>
N_osx == <<"o", "s", "x">>
N_windows == <<"w", "i", "n", "d", "o", "w", "s">>
N_tldr_master == <<"t", "l", "d", "r", "-", "m", "a", "s", "t", "e", "r">>
N_pages == <<"p", "a", "g", "e", "s">>
NAME == <<"t", "e", "a", "l", "d", "e", "e", "r">>
N_home == <<"h", "o", "m", "e">>
N_cache == <<".", "c", "a", "c", "h", "e">>
N_ovr == <<"o", "v", "r">>
N_ovrfile == <<"o", "v", "r", "f">>
N_nowhere == <<"n", "o", "n", "e">>

\* Byte value of the characters used in page names (String's Ord is byte-wise).
Byte(c) ==
    CASE c = "-" -> 45
      [] c = "." -> 46
      [] c = "D" -> 68
      [] c = "M" -> 77
      [] c = "a" -> 97
      [] c = "b" -> 98
      [] c = "d" -> 100
      [] c = "m" -> 109
      [] c = "t" -> 116
      [] c = "x" -> 120
      [] OTHER -> 63

\* ------------------------------------------------------------ the values

OsType == {"Linux", "OsX", "SunOs", "Other"}

None == [some |-> FALSE]
Some(v) == [some |-> TRUE, v |-> v]

Ok(v) == [ok |-> TRUE, v |-> v]
Err(e) == [ok |-> FALSE, e |-> e]

CacheError(msg) == [kind |-> "CacheError", msg |-> msg]

\* ------------------------------------------------------------ file system

\* fs maps every existing path to what lstat reports for it: "dir", "file",
\* or "symlink" (a symbolic link whose target is a regular file).
LKind(p) == IF p \in DOMAIN fs THEN fs[p] ELSE "none"

\* Path::exists, Path::is_dir, Path::is_file follow symbolic links.
exists(p) == LKind(p) # "none"
is_dir(p) == LKind(p) = "dir"
is_file(p) == LKind(p) \in {"file", "symlink"}

join(p, name) == Append(p, name)

\* std::env::var("TEALDEER_CACHE_DIR"): the value when the variable is set to
\* valid Unicode, an error when it is unset or not Unicode.
env_var ==
    IF envVar.tag = "Ok" THEN Ok(envVar.path) ELSE Err(envVar.tag)

\* BaseDirectories::with_prefix(NAME).get_cache_home()
XdgCacheHome == <<N_home, N_cache, NAME>>

\* get_cache_dir falling back to the XDG location on an unusable override.
get_cache_dir_mut_fallback ==
    IF env_var.ok /\ exists(env_var.v) /\ is_dir(env_var.v)
    THEN Ok(env_var.v)
    ELSE IF xdgOk
         THEN Ok(XdgCacheHome)
         ELSE Err(CacheError("Could not determine XDG base directory."))

get_cache_dir ==
    IF env_var.ok
    THEN IF exists(env_var.v) /\ is_dir(env_var.v)
         THEN Ok(env_var.v)
         ELSE Err(CacheError("Path specified by $TEALDEER_CACHE_DIR does not exist or is not a directory."))
    ELSE IF xdgOk
         THEN Ok(XdgCacheHome)
         ELSE Err(CacheError("Could not determine XDG base directory."))

\* --------------------------------------------------------------- lookup

get_platform_dir ==
    CASE os = "Linux" -> Some(N_linux)
      [] os = "OsX" -> Some(N_osx)
      [] os = "SunOs" -> None
      [] os = "Other" -> None

\* format!("{}.md", name)
page_filename(name) == name \o <<".">> \o N_md

\* cache_dir.join("tldr-master").join("pages")
platforms_dir_of(cache_dir) == join(join(cache_dir, N_tldr_master), N_pages)

\* find_page probing the common directory first.
find_page_mut_common_first(name) ==
    IF ~get_cache_dir.ok
    THEN None
    ELSE LET platforms_dir == platforms_dir_of(get_cache_dir.v)
             platform == get_platform_dir
             ppath == join(join(platforms_dir, platform.v), page_filename(name))
             cpath == join(join(platforms_dir, N_common), page_filename(name))
         IN  IF exists(cpath) /\ is_file(cpath)
             THEN Some(cpath)
             ELSE IF platform.some /\ exists(ppath) /\ is_file(ppath)
                  THEN Some(ppath)
                  ELSE None

\* find_page consulting the common directory only when the platform has no
\* directory.
find_page_mut_no_fallback(name) ==
    IF ~get_cache_dir.ok
    THEN None
    ELSE LET platforms_dir == platforms_dir_of(get_cache_dir.v)
             platform == get_platform_dir
             ppath == join(join(platforms_dir, platform.v), page_filename(name))
             cpath == join(join(platforms_dir, N_common), page_filename(name))
         IN  IF platform.some
             THEN IF exists(ppath) /\ is_file(ppath) THEN Some(ppath) ELSE None
             ELSE IF exists(cpath) /\ is_file(cpath)
                  THEN Some(cpath)
                  ELSE None

\* find_page searching the XDG location when the cache directory is an error.
find_page_mut_xdg_on_err(name) ==
    LET cache_dir == IF get_cache_dir.ok THEN get_cache_dir.v ELSE XdgCacheHome
        platforms_dir == platforms_dir_of(cache_dir)
        platform == get_platform_dir
        ppath == join(join(platforms_dir, platform.v), page_filename(name))
        cpath == join(join(platforms_dir, N_common), page_filename(name))
    IN  IF platform.some /\ exists(ppath) /\ is_file(ppath)
        THEN Some(ppath)
        ELSE IF exists(cpath) /\ is_file(cpath)
             THEN Some(cpath)
             ELSE None

find_page(name) ==
    IF ~get_cache_dir.ok
    THEN None
    ELSE LET platforms_dir == platforms_dir_of(get_cache_dir.v)
             platform == get_platform_dir
             ppath == join(join(platforms_dir, platform.v), page_filename(name))
             cpath == join(join(platforms_dir, N_common), page_filename(name))
         IN  IF platform.some /\ exists(ppath) /\ is_file(ppath)
             THEN Some(ppath)
             ELSE IF exists(cpath) /\ is_file(cpath)
                  THEN Some(cpath)
                  ELSE None

\* -------------------------------------------------------------- listing

\* DirEntry::file_name: the last component of the entry's path.
file_name(p) == p[Len(p)]

\* DirEntry::file_type does not follow symbolic links.
file_type(p) == LKind(p)

\* should_walk letting the walk enter every directory.
should_walk_mut_any_dir(entry) ==
    IF file_type(entry) = "dir"
    THEN TRUE
    ELSE IF file_type(entry) = "file"
         THEN TRUE
         ELSE FALSE

should_walk(entry) ==
    IF file_type(entry) = "dir"
    THEN IF file_name(entry) = N_common
         THEN TRUE
         ELSE IF get_platform_dir.some
              THEN file_name(entry) = get_platform_dir.v
              ELSE FALSE
    ELSE IF file_type(entry) = "file"
         THEN TRUE
         ELSE FALSE

\* The entries read_dir reports for directory d.
Children(d) ==
    {p \in DOMAIN fs : Len(p) = Len(d) + 1 /\ SubSeq(p, 1, Len(d)) = d}

\* WalkDir below d with filter_entry(should_walk): an entry the predicate
\* rejects is neither yielded nor descended into.
RECURSIVE Walk(_)
Walk(d) ==
    UNION {IF should_walk(c)
           THEN {c} \cup (IF file_type(c) = "dir" THEN Walk(c) ELSE {})
           ELSE {} : c \in Children(d)}

\* WalkDir::new(root).min_depth(1): the root is not yielded; a root that is
\* not a directory yields nothing that survives filter_map(|e| e.ok()).
WalkDir(root) == IF is_dir(root) THEN Walk(root) ELSE {}

\* Index of the last "." of a file name, 0 when there is none.
RECURSIVE LastDot(_, _)
LastDot(s, i) ==
    IF i = 0 THEN 0 ELSE IF s[i] = "." THEN i ELSE LastDot(s, i - 1)

\* std::path split_file_at_dot
split_file_at_dot(file) ==
    IF file = <<".", ".">>
    THEN [before |-> Some(file), after |-> None]
    ELSE LET i == LastDot(file, Len(file))
         IN  IF i = 0
             THEN [before |-> None, after |-> Some(file)]
             ELSE IF i = 1
                  THEN [before |-> Some(file), after |-> None]
                  ELSE [before |-> Some(SubSeq(file, 1, i - 1)),
                        after |-> Some(SubSeq(file, i + 1, Len(file)))]

\* Path::extension: before.and(after)
extension(p) ==
    LET sp == split_file_at_dot(file_name(p))
    IN  IF sp.before.some THEN sp.after ELSE None

\* Path::file_stem: before.or(after)
file_stem(p) ==
    LET sp == split_file_at_dot(file_name(p))
    IN  IF sp.before.some THEN sp.before ELSE sp.after

\* The closure given to filter_map: the page name an entry contributes.
page_of(e) ==
    LET ext == IF extension(e).some THEN extension(e).v ELSE <<>>
    IN  IF file_type(e) = "file" /\ ext = N_md THEN file_stem(e) ELSE None

\* String's Ord: byte-wise lexicographic.
RECURSIVE LexLess(_, _)
LexLess(a, b) ==
    IF Len(a) = 0 THEN Len(b) > 0
    ELSE IF Len(b) = 0 THEN FALSE
    ELSE IF Byte(Head(a)) < Byte(Head(b)) THEN TRUE
    ELSE IF Byte(Head(a)) > Byte(Head(b)) THEN FALSE
    ELSE LexLess(Tail(a), Tail(b))

RECURSIVE InsertSorted(_, _)
InsertSorted(v, x) ==
    IF Len(v) = 0 THEN <<x>>
    ELSE IF LexLess(x, Head(v)) THEN <<x>> \o v
    ELSE <<Head(v)>> \o InsertSorted(Tail(v), x)

\* Vec::sort
RECURSIVE sort(_)
sort(v) == IF Len(v) = 0 THEN <<>> ELSE InsertSorted(sort(Tail(v)), Head(v))

\* Vec::dedup: removes consecutive repeated elements.
RECURSIVE dedup(_)
dedup(v) ==
    IF Len(v) <= 1 THEN v
    ELSE IF v[1] = v[2] THEN dedup(Tail(v))
    ELSE <<v[1]>> \o dedup(Tail(v))

\* The orders in which the walk can yield the entries of S.
Orders(S) ==
    {f \in [1..Cardinality(S) -> S] : \A x \in S : \E i \in DOMAIN f : f[i] = x}

\* list_pages without the dedup call.
list_pages_mut_no_dedup(walk) ==
    IF ~get_cache_dir.ok
    THEN Err(get_cache_dir.e)
    ELSE LET pages == [i \in DOMAIN walk |-> page_of(walk[i]).v]
         IN  Ok(sort(pages))

\* list_pages reporting a pages directory that cannot be walked as an error.
list_pages_mut_missing_err(walk) ==
    IF ~get_cache_dir.ok
    THEN Err(get_cache_dir.e)
    ELSE IF ~is_dir(platforms_dir_of(get_cache_dir.v))
         THEN Err(CacheError("Could not walk the pages directory."))
         ELSE LET pages == [i \in DOMAIN walk |-> page_of(walk[i]).v]
              IN  Ok(dedup(sort(pages)))

\* list_pages, with walk the order in which the directory walk yielded the
\* contributing entries.
list_pages(walk) ==
    IF ~get_cache_dir.ok
    THEN Err(get_cache_dir.e)
    ELSE LET pages == [i \in DOMAIN walk |-> page_of(walk[i]).v]
         IN  Ok(dedup(sort(pages)))

\* ------------------------------------------------------------- freshness

\* last_update with the subtraction reversed.
last_update_mut_reversed ==
    IF get_cache_dir.ok /\ exists(join(get_cache_dir.v, N_tldr_master))
    THEN Some(mtime - now)
    ELSE None

last_update ==
    IF get_cache_dir.ok /\ exists(join(get_cache_dir.v, N_tldr_master))
    THEN Some(now - mtime)
    ELSE None

MAX_CACHE_AGE == 2592000

check_freshness ==
    IF ~last_update.some THEN [state |-> "Missing", age |-> 0]
    ELSE IF last_update.v > MAX_CACHE_AGE
         THEN [state |-> "Stale", age |-> last_update.v]
         ELSE [state |-> "Fresh", age |-> 0]

\* ------------------------------------------------- the states at start-up

OvrDir == <<N_ovr>>
OvrFile == <<N_ovrfile>>
OvrMissing == <<N_nowhere>>

\* The states of $TEALDEER_CACHE_DIR: unset, set to bytes that are not
\* Unicode, or set to a path that is a directory, a regular file or nothing.
EnvValues ==
    {[tag |-> "NotPresent", path |-> <<>>], [tag |-> "NotUnicode", path |-> <<>>]}
    \cup {[tag |-> "Ok", path |-> p] : p \in {OvrDir, OvrFile, OvrMissing}}

F_a_md == <<"a", ".", "m", "d">>
F_b_md == <<"b", ".", "m", "d">>
F_a_MD == <<"a", ".", "M", "D">>
F_a_txt == <<"a", ".", "t", "x", "t">>
F_a == <<"a">>
F_dot_md == <<".", "m", "d">>

\* Directories below the pages directory in which entries are placed.
EntryDirs ==
    {<<>>, <<N_common>>, <<N_linux>>, <<N_osx>>, <<N_windows>>,
     <<N_common, N_linux>>}

\* The entries a cache tree is drawn from.
Universe ==
    {[dir |-> d, name |-> F_a_md, kind |-> "file"] : d \in EntryDirs}
    \cup {[dir |-> d, name |-> F_b_md, kind |-> "file"] :
            d \in {<<N_common>>, <<N_linux>>}}
    \cup {[dir |-> d, name |-> n, kind |-> k] :
            d \in {<<N_common>>, <<N_linux>>},
            n \in {F_a_md},
            k \in {"symlink", "dir"}}
    \cup {[dir |-> <<N_common>>, name |-> F_dot_md, kind |-> "file"]}
    \cup {[dir |-> <<N_common>>, name |-> n, kind |-> "file"] :
            n \in {F_a_MD, F_a_txt, F_a}}

RECURSIVE TreesUpTo(_)
TreesUpTo(k) ==
    IF k = 0 THEN {{}}
    ELSE TreesUpTo(k - 1)
         \cup {t \cup {e} : t \in TreesUpTo(k - 1), e \in Universe}

\* Trees in which no path is taken twice.
Trees(k) ==
    {t \in TreesUpTo(k) :
        \A e1, e2 \in t : (e1.dir = e2.dir /\ e1.name = e2.name) => e1 = e2}

Prefixes(p) == {SubSeq(p, 1, i) : i \in 1..Len(p)}

\* The file system in which cache root `root` holds tldr-master/pages with
\* the entries of `tree` below it; the override candidates always exist.
TreeFS(root, tree) ==
    LET pages == platforms_dir_of(root)
        dirs == {OvrDir} \cup Prefixes(pages)
                \cup UNION {Prefixes(pages \o e.dir) : e \in tree}
        leaf(e) == Append(pages \o e.dir, e.name)
        leaves == {leaf(e) : e \in tree}
    IN  [p \in dirs \cup leaves \cup {OvrFile} |->
            IF p \in leaves THEN (CHOOSE e \in tree : leaf(e) = p).kind
            ELSE IF p = OvrFile THEN "file"
            ELSE "dir"]

\* The file system with no cache content anywhere.
EmptyFS == [p \in {OvrDir, OvrFile} |-> IF p = OvrDir THEN "dir" ELSE "file"]

FileSystems(k) ==
    {EmptyFS} \cup {TreeFS(r, t) : r \in {OvrDir, XdgCacheHome}, t \in Trees(k)}

\* The page names asked for.
Names == {<<"a">>, <<"b">>, <<>>}

\* Cache::new plus the environment the process starts in: every cache tree
\* of up to MaxEntries entries, the XDG base directory determinable.
Init ==
    /\ os \in OsType
    /\ envVar \in EnvValues
    /\ xdgOk = TRUE
    /\ fs \in FileSystems(MaxEntries)
    /\ now = 1600000000
    /\ mtime = 1599990000
    /\ op = "new"
    /\ arg = <<>>
    /\ ret = None
    /\ walked = {}

\* Start-up states for root resolution: the XDG base directory may be
\* undeterminable, the tree holds up to MaxEnvEntries entries.
InitEnv ==
    /\ os \in OsType
    /\ envVar \in EnvValues
    /\ xdgOk \in BOOLEAN
    /\ fs \in FileSystems(MaxEnvEntries)
    /\ now = 1600000000
    /\ mtime = 1599990000
    /\ op = "new"
    /\ arg = <<>>
    /\ ret = None
    /\ walked = {}

\* Start-up states for the age of the cache: the marker's mtime ranges around
\* the 30 day threshold, the tree holds no entries.
InitAge ==
    /\ os \in OsType
    /\ envVar \in EnvValues
    /\ xdgOk \in BOOLEAN
    /\ fs \in FileSystems(0)
    /\ now = 1600000000
    /\ mtime \in {now - 2591999, now - 2592000, now - 2592001, now - 1, now,
                  now + 60, now - 5184000}
    /\ op = "new"
    /\ arg = <<>>
    /\ ret = None
    /\ walked = {}

\* ----------------------------------------------------------- operations

GetCacheDir ==
    /\ op' = "get_cache_dir"
    /\ arg' = <<>>
    /\ ret' = get_cache_dir
    /\ walked' = {}
    /\ UNCHANGED <<os, envVar, xdgOk, fs, mtime, now>>

FindPage ==
    \E name \in Names :
        /\ op' = "find_page"
        /\ arg' = name
        /\ ret' = find_page(name)
        /\ walked' = {}
        /\ UNCHANGED <<os, envVar, xdgOk, fs, mtime, now>>

\* The entries the walk of list_pages yields.
Walked ==
    IF get_cache_dir.ok THEN WalkDir(platforms_dir_of(get_cache_dir.v)) ELSE {}

\* The orders in which the walk of list_pages can yield the page entries.
WalkOrders ==
    IF get_cache_dir.ok
    THEN Orders({e \in Walked : page_of(e).some})
    ELSE {<<>>}

ListPages ==
    \E walk \in WalkOrders :
        /\ op' = "list_pages"
        /\ arg' = <<>>
        /\ ret' = list_pages(walk)
        /\ walked' = Walked
        /\ UNCHANGED <<os, envVar, xdgOk, fs, mtime, now>>

LastUpdate ==
    /\ op' = "last_update"
    /\ arg' = <<>>
    /\ ret' = last_update
    /\ walked' = {}
    /\ UNCHANGED <<os, envVar, xdgOk, fs, mtime, now>>

CheckFreshness ==
    /\ op' = "check_freshness"
    /\ arg' = <<>>
    /\ ret' = check_freshness
    /\ walked' = {}
    /\ UNCHANGED <<os, envVar, xdgOk, fs, mtime, now>>

Next == GetCacheDir \/ FindPage \/ ListPages \/ LastUpdate \/ CheckFreshness

Spec == Init /\ [][Next]_vars

SpecEnv == InitEnv /\ [][Next]_vars

SpecAge == InitAge /\ [][Next]_vars

\* ---------------------------------------------------- terms of the claims

\* The directory tokens of the active platform: Linux -> "linux",
\* OsX -> "osx", none for SunOs and Other.
Tokens ==
    IF os = "Linux" THEN {N_linux} ELSE IF os = "OsX" THEN {N_osx} ELSE {}

\* The names of the directories listing may enter.
Allowed == {N_common} \cup Tokens

\* <root>/tldr-master/pages for the resolved root.
PagesRoot == get_cache_dir.v \o <<N_tldr_master, N_pages>>

\* <root>/tldr-master/pages/<dirname>/<name>.md
PagePath(dirname, name) == PagesRoot \o <<dirname, name \o <<".", "m", "d">>>>

\* p exists and is a regular file (as stat sees it).
RegularAt(p) == p \in DOMAIN fs /\ fs[p] \in {"file", "symlink"}

\* p lies below the pages root.
Below(p) ==
    Len(p) > Len(PagesRoot) /\ SubSeq(p, 1, Len(PagesRoot)) = PagesRoot

\* The names of the directories between the pages root and p.
DirParts(p) == {p[i] : i \in (Len(PagesRoot) + 1)..(Len(p) - 1)}

\* The entries below the pages root called <name>.md.
Occurrences(name) ==
    {p \in DOMAIN fs : Below(p) /\ p[Len(p)] = name \o <<".", "m", "d">>}

\* The override names an existing directory.
OverrideIsDir == envVar.path \in DOMAIN fs /\ fs[envVar.path] = "dir"

InvalidOverride ==
    "Path specified by $TEALDEER_CACHE_DIR does not exist or is not a directory."

\* ------------------------------------------------------------ the claims

\* C1: when the platform maps to a directory token and
\* <root>/tldr-master/pages/<token>/<name>.md exists as a regular file,
\* find_page returns exactly that path, whether or not the common page exists.
C1_PlatformPrecedence ==
    (op = "find_page" /\ get_cache_dir.ok) =>
        \A t \in Tokens :
            RegularAt(PagePath(t, arg)) => ret = Some(PagePath(t, arg))

C1_Witness ==
    /\ op = "find_page"
    /\ get_cache_dir.ok
    /\ \E t \in Tokens :
        /\ RegularAt(PagePath(t, arg))
        /\ RegularAt(PagePath(N_common, arg))
        /\ ret = Some(PagePath(t, arg))

\* C2: when the platform maps to no token or the platform page is not an
\* existing regular file, find_page returns the common path if and only if
\* the common page exists as a regular file, and None otherwise; a page that
\* exists only under another platform's directory is not returned.
C2_CommonFallback ==
    (/\ op = "find_page"
     /\ get_cache_dir.ok
     /\ \A t \in Tokens : ~RegularAt(PagePath(t, arg))) =>
        ret = IF RegularAt(PagePath(N_common, arg))
              THEN Some(PagePath(N_common, arg))
              ELSE None

C2_Witness ==
    /\ op = "find_page"
    /\ get_cache_dir.ok
    /\ os = "Linux"
    /\ RegularAt(PagePath(N_osx, arg))
    /\ ~RegularAt(PagePath(N_linux, arg))
    /\ ret = None

C4_OtherPlatformsInvisible ==
    (op = "list_pages" /\ ret.ok) =>
        /\ \A i \in DOMAIN ret.v :
            \E p \in Occurrences(ret.v[i]) : DirParts(p) \subseteq Allowed
        /\ \A e \in walked :
            /\ DirParts(e) \subseteq Allowed
            /\ fs[e] = "dir" => e[Len(e)] \in Allowed

C4_Witness ==
    /\ op = "list_pages"
    /\ ret.ok
    /\ os = "Linux"
    /\ PagePath(N_windows, <<"a">>) \in DOMAIN fs
    /\ ret.v = <<<<"b">>>>

\* C5: the sequence list_pages returns is strictly increasing in byte order
\* (sorted, every name once), and a second call on the unchanged tree returns
\* the same sequence.
C5_SortedUniqueStable ==
    /\ [](op = "list_pages" /\ ret.ok =>
            \A i \in 1..(Len(ret.v) - 1) : LexLess(ret.v[i], ret.v[i + 1]))
    /\ [][(op = "list_pages" /\ op' = "list_pages") => ret' = ret]_vars

C5_Witness ==
    /\ op = "list_pages"
    /\ ret.ok
    /\ os = "Linux"
    /\ PagePath(N_common, <<"a">>) \in DOMAIN fs
    /\ fs[PagePath(N_common, <<"a">>)] = "file"
    /\ PagePath(N_linux, <<"a">>) \in DOMAIN fs
    /\ fs[PagePath(N_linux, <<"a">>)] = "file"
    /\ ret.v = <<<<"a">>>>

\* C6: the freshness check returns Missing when <root>/tldr-master is absent;
\* otherwise, with age = now - mtime, Stale(age) exactly when age > 2592000
\* and Fresh otherwise (age 2592000 is Fresh); it never fails.
C6_Freshness ==
    op = "check_freshness" =>
        /\ ret.state \in {"Missing", "Stale", "Fresh"}
        /\ get_cache_dir.ok =>
            IF get_cache_dir.v \o <<N_tldr_master>> \notin DOMAIN fs
            THEN ret.state = "Missing"
            ELSE IF now - mtime > 2592000
                 THEN ret.state = "Stale" /\ ret.age = now - mtime
                 ELSE ret.state = "Fresh"

C6_Witness ==
    /\ op = "check_freshness"
    /\ get_cache_dir.ok
    /\ get_cache_dir.v \o <<N_tldr_master>> \in DOMAIN fs
    /\ now - mtime = 2592000
    /\ ret.state = "Fresh"

\* The root can be resolved: the override is an existing directory, or there
\* is no override and the XDG base directory can be determined.
Resolvable == IF envVar.tag = "Ok" THEN OverrideIsDir ELSE xdgOk

\* C7: list_pages fails if and only if the cache root cannot be resolved, with
\* the resolver's error; for a resolvable root, also one without a pages
\* directory, it returns a (possibly empty) result.
C7_ListFailsOnlyOnResolution ==
    op = "list_pages" =>
        /\ ret.ok <=> Resolvable
        /\ ~ret.ok =>
            /\ ret.e.kind = "CacheError"
            /\ ret.e.msg = IF envVar.tag = "Ok"
                           THEN InvalidOverride
                           ELSE "Could not determine XDG base directory."

C7_Witness ==
    /\ op = "list_pages"
    /\ Resolvable
    /\ PagesRoot \notin DOMAIN fs
    /\ ret = Ok(<<>>)

\* C8: every name list_pages returns is the stem of a regular file with
\* extension exactly "md" lying inside "common" or the platform directory;
\* files elsewhere, also directly in the pages root, contribute no name.
C8_ListingSound ==
    (op = "list_pages" /\ ret.ok) =>
        \A i \in DOMAIN ret.v :
            \E p \in Occurrences(ret.v[i]) :
                /\ fs[p] = "file"
                /\ Len(p) >= Len(PagesRoot) + 2
                /\ DirParts(p) \subseteq Allowed

\* C9: a page name without path separator for which find_page returns a path
\* is an element of the sequence list_pages returns.
C9_ListingComplete ==
    (op = "list_pages" /\ ret.ok) =>
        \A n \in Names :
            find_page(n).some => \E i \in DOMAIN ret.v : ret.v[i] = n

\* C10: with the override supplied but not an existing directory, find_page
\* returns None for every name and platform, also when the page exists under
\* the conventional location, and last_update returns None; only list_pages
\* reports the failure as an error.
C10_UnresolvedRootIsAbsence ==
    (envVar.tag = "Ok" /\ ~OverrideIsDir) =>
        /\ op = "find_page" => ret = None
        /\ op = "last_update" => ret = None
        /\ op = "list_pages" => ~ret.ok

C10_Witness ==
    /\ op = "find_page"
    /\ envVar.tag = "Ok"
    /\ ~OverrideIsDir
    /\ XdgCacheHome \o <<N_tldr_master, N_pages, N_common, arg \o <<".", "m", "d">>>>
            \in DOMAIN fs
    /\ fs[XdgCacheHome \o <<N_tldr_master, N_pages, N_common, arg \o <<".", "m", "d">>>>]
            = "file"
    /\ ret = None

====
